---- MODULE Spec2Model ----
(***************************************************************************)
(* Companion grid environments (companion_simple, companion_synchro):      *)
(* the Grid store, the simultaneous-move resolver, the interaction         *)
(* resolver and the per-turn episode pipeline of CompanionState.           *)
(*                                                                         *)
(* Positions are 0-based (row, col) as in the source.  Sequences are       *)
(* 1-based, so the element the source calls agents_[i] is agents[i + 1].   *)
(* Rewards are the integer values of the source's doubles.                 *)
(***************************************************************************)
EXTENDS Integers, Sequences, FiniteSets, TLC

(***************************************************************************)
(* companion_types.h                                                       *)
(***************************************************************************)
kEmpty == 0
kWall == 1
kLava == 2
kGoal == 3
kSynchro == 4

kRed == 0
kBlue == 1

kNorth == 0
kEast == 1
kSouth == 2
kWest == 3
kInteract == 4
kStay == 5

kKey == 0
kTreasure == 1

kNumActions == 6
kMaxAgents == 25
kMaxInventorySize == 8

kRowDeltas == <<-1, 0, 1, 0>>
kColDeltas == <<0, 1, 0, -1>>

(***************************************************************************)
(* companion_base.h                                                        *)
(***************************************************************************)
kStepReward == -1
kSuccessReward == 100
kDeathPenalty == -100

(***************************************************************************)
(* Bounds of the model.                                                    *)
(***************************************************************************)
\* Largest horizon of the configurations of the two registered games.
MaxHorizon == 2

\* Largest horizon of the configurations of the door layout.
MaxArenaHorizon == 3

Max(a, b) == IF a >= b THEN a ELSE b
Min(a, b) == IF a <= b THEN a ELSE b

\* The value a pointer-returning lookup yields when nothing is found.
nullptr == [id |-> -1]

PickableItem(t, c, i) == [type |-> t, color |-> c, id |-> i]

AgentData(agent_id, r, c, dir, inv) ==
    [id |-> agent_id, row |-> r, col |-> c, direction |-> dir, inventory |-> inv]

DoorData(r, c, key_color, open) ==
    [row |-> r, col |-> c, required_key_color |-> key_color, is_open |-> open]

GroundItem(r, c, i) == [row |-> r, col |-> c, item |-> i]

GetNextPosition(row, col, dir) ==
    <<row + kRowDeltas[dir + 1], col + kColDeltas[dir + 1]>>

(***************************************************************************)
(* AgentData::HasKey / AgentData::RemoveKey                                *)
(***************************************************************************)
IsKeyOf(item, key_color) == item.type = kKey /\ item.color = key_color

HasItemOfColor(inventory, key_color) ==
    \E k \in 1..Len(inventory) : inventory[k].color = key_color

HasKey(inventory, key_color) ==
    \E k \in 1..Len(inventory) : IsKeyOf(inventory[k], key_color)

\* Index of the first matching key (0 when there is none).
FirstKeyIndex(inventory, key_color) ==
    IF HasKey(inventory, key_color)
    THEN CHOOSE k \in 1..Len(inventory) :
            /\ IsKeyOf(inventory[k], key_color)
            /\ \A m \in 1..(k - 1) : ~IsKeyOf(inventory[m], key_color)
    ELSE 0

EraseAt(s, k) == [m \in 1..(Len(s) - 1) |-> IF m < k THEN s[m] ELSE s[m + 1]]

RemoveKeyAll(inventory, key_color) ==
    SelectSeq(inventory, LAMBDA it : ~IsKeyOf(it, key_color))

RemoveKey(inventory, key_color) ==
    IF HasKey(inventory, key_color)
    THEN EraseAt(inventory, FirstKeyIndex(inventory, key_color))
    ELSE inventory

(***************************************************************************)
(* Grid (companion_grid.h / companion_grid.cc).  A grid is the record      *)
(* [rows, cols, cells, agents, doors, ground_items]; cells is the flat     *)
(* row-major array.                                                        *)
(***************************************************************************)
Grid(rows, cols) ==
    [rows |-> rows, cols |-> cols,
     cells |-> [k \in 1..(rows * cols) |-> kEmpty],
     agents |-> <<>>, doors |-> <<>>, ground_items |-> <<>>]

IsWithinBounds(g, row, col) ==
    row >= 0 /\ row < g.rows /\ col >= 0 /\ col < g.cols

GetCell(g, row, col) == g.cells[row * g.cols + col + 1]

SetCell(g, row, col, type) ==
    [g EXCEPT !.cells[row * g.cols + col + 1] = type]

\* 1-based index of the agent with this id, 0 when absent (the source's -1).
FindAgentIndex(g, agent_id) ==
    IF \E k \in 1..Len(g.agents) : g.agents[k].id = agent_id
    THEN CHOOSE k \in 1..Len(g.agents) :
            /\ g.agents[k].id = agent_id
            /\ \A m \in 1..(k - 1) : g.agents[m].id # agent_id
    ELSE 0

GetAgent(g, agent_id) ==
    IF FindAgentIndex(g, agent_id) > 0
    THEN g.agents[FindAgentIndex(g, agent_id)]
    ELSE nullptr

\* The first agent of the store standing on the cell, nullptr when none does.
GetAgentAt(g, row, col) ==
    LET here == SelectSeq(g.agents, LAMBDA a : a.row = row /\ a.col = col)
    IN IF Len(here) > 0 THEN here[1] ELSE nullptr

\* SpielFatalError on a duplicate id aborts: the grid is left as it was.
\* Grid::AddAgent's check: SpielFatalError is called for this agent.
AddAgentIsFatal(g, agent) == GetAgent(g, agent.id) # nullptr

\* An AddAgent that appends without looking at the ids in the store.
AddAgentUnchecked(g, agent) == [g EXCEPT !.agents = Append(@, agent)]

AddAgent(g, agent) ==
    IF GetAgent(g, agent.id) # nullptr
    THEN g
    ELSE [g EXCEPT !.agents = Append(@, agent)]

AddDoor(g, door) == [g EXCEPT !.doors = Append(@, door)]

AddGroundItem(g, item) == [g EXCEPT !.ground_items = Append(@, item)]

\* 1-based index of the first door on the cell, 0 when there is none.
DoorIndexAt(g, row, col) ==
    IF \E k \in 1..Len(g.doors) : g.doors[k].row = row /\ g.doors[k].col = col
    THEN CHOOSE k \in 1..Len(g.doors) :
            /\ g.doors[k].row = row /\ g.doors[k].col = col
            /\ \A m \in 1..(k - 1) : ~(g.doors[m].row = row /\ g.doors[m].col = col)
    ELSE 0

GetDoorAt(g, row, col) ==
    IF DoorIndexAt(g, row, col) > 0
    THEN g.doors[DoorIndexAt(g, row, col)]
    ELSE nullptr

GetGroundItemsAt(g, row, col) ==
    SelectSeq(g.ground_items, LAMBDA it : it.row = row /\ it.col = col)

RemoveGroundItem(g, row, col, item_id) ==
    [g EXCEPT !.ground_items =
        SelectSeq(@, LAMBDA it :
            ~(it.row = row /\ it.col = col /\ it.item.id = item_id))]

CanMoveToIgnoringDoors(g, row, col) ==
    IF ~IsWithinBounds(g, row, col) THEN FALSE
    ELSE IF GetCell(g, row, col) = kWall THEN FALSE
    ELSE TRUE

CanMoveTo(g, row, col) ==
    IF ~IsWithinBounds(g, row, col) THEN FALSE
    ELSE IF GetCell(g, row, col) = kWall THEN FALSE
    ELSE IF GetDoorAt(g, row, col) # nullptr /\ ~GetDoorAt(g, row, col).is_open
         THEN FALSE
    ELSE TRUE

(***************************************************************************)
(* Grid::PredictMoves: agents_[i] is paired with actions[i]; a move is the *)
(* record [id, row, col] (the source's pair of id and position).           *)
(***************************************************************************)
IsMoveAction(action) ==
    action = kNorth \/ action = kEast \/ action = kSouth \/ action = kWest

PredictMoves(g, actions) ==
    [i \in 1..Min(Len(g.agents), Len(actions)) |->
        LET agent == g.agents[i]
            next == IF IsMoveAction(actions[i])
                    THEN GetNextPosition(agent.row, agent.col, actions[i])
                    ELSE <<agent.row, agent.col>>
        IN [id |-> agent.id, row |-> next[1], col |-> next[2]]]

(***************************************************************************)
(* Grid::ResolveCollisions, first pass: an invalid move becomes the        *)
(* agent's current position.                                               *)
(***************************************************************************)
LegalityPass(g, moves) ==
    [i \in 1..Len(moves) |->
        LET agent == GetAgent(g, moves[i].id)
        IN IF agent = nullptr THEN moves[i]
           ELSE IF ~CanMoveTo(g, moves[i].row, moves[i].col)
                THEN [moves[i] EXCEPT !.row = agent.row, !.col = agent.col]
           ELSE moves[i]]

(***************************************************************************)
(* Grid::ResolveCollisions, second pass: the body of the double loop for   *)
(* the pair (i, j), then the loop itself over i < j in the source's order, *)
(* each pair seeing the corrections made for the pairs before it.          *)
(***************************************************************************)
\* The pair step with one more case: two agents exchanging their cells are
\* bounced as well.
ResolvePairBlockingSwaps(g, moves, i, j) ==
    LET pos1 == moves[i]
        pos2 == moves[j]
        agent1 == GetAgent(g, pos1.id)
        agent2 == GetAgent(g, pos2.id)
        agent1_moved == pos1.row # agent1.row \/ pos1.col # agent1.col
        agent2_moved == pos2.row # agent2.row \/ pos2.col # agent2.col
        back1 == [pos1 EXCEPT !.row = agent1.row, !.col = agent1.col]
        back2 == [pos2 EXCEPT !.row = agent2.row, !.col = agent2.col]
        swap == /\ agent1_moved /\ agent2_moved
                /\ pos1.row = agent2.row /\ pos1.col = agent2.col
                /\ pos2.row = agent1.row /\ pos2.col = agent1.col
    IN IF agent1 = nullptr \/ agent2 = nullptr THEN moves
       ELSE IF swap THEN [moves EXCEPT ![i] = back1, ![j] = back2]
       ELSE IF ~(pos1.row = pos2.row /\ pos1.col = pos2.col) THEN moves
       ELSE IF agent1_moved /\ agent2_moved
            THEN [moves EXCEPT ![i] = back1, ![j] = back2]
       ELSE IF agent1_moved THEN [moves EXCEPT ![i] = back1]
       ELSE IF agent2_moved THEN [moves EXCEPT ![j] = back2]
       ELSE moves

ResolvePair(g, moves, i, j) ==
    LET pos1 == moves[i]
        pos2 == moves[j]
        agent1 == GetAgent(g, pos1.id)
        agent2 == GetAgent(g, pos2.id)
        agent1_moved == pos1.row # agent1.row \/ pos1.col # agent1.col
        agent2_moved == pos2.row # agent2.row \/ pos2.col # agent2.col
        back1 == [pos1 EXCEPT !.row = agent1.row, !.col = agent1.col]
        back2 == [pos2 EXCEPT !.row = agent2.row, !.col = agent2.col]
    IN IF ~(pos1.row = pos2.row /\ pos1.col = pos2.col) THEN moves
       ELSE IF agent1 = nullptr \/ agent2 = nullptr THEN moves
       ELSE IF agent1_moved /\ agent2_moved
            THEN [moves EXCEPT ![i] = back1, ![j] = back2]
       ELSE IF agent1_moved THEN [moves EXCEPT ![i] = back1]
       ELSE IF agent2_moved THEN [moves EXCEPT ![j] = back2]
       ELSE moves

RECURSIVE ConflictPass(_, _, _, _)
ConflictPass(g, moves, i, j) ==
    IF i > Len(moves) THEN moves
    ELSE IF j > Len(moves) THEN ConflictPass(g, moves, i + 1, i + 2)
    ELSE ConflictPass(g, ResolvePair(g, moves, i, j), i, j + 1)

\* Both passes, then a third that keeps an agent out of a cell another
\* agent stood on at the start of the turn.
ResolveCollisionsKeepingOffOccupiedCells(g, moves) ==
    LET passed == ConflictPass(g, LegalityPass(g, moves), 1, 2)
    IN [i \in 1..Len(passed) |->
           LET agent == GetAgent(g, passed[i].id)
               other == GetAgentAt(g, passed[i].row, passed[i].col)
           IN IF agent # nullptr /\ other # nullptr /\ other.id # agent.id
              THEN [passed[i] EXCEPT !.row = agent.row, !.col = agent.col]
              ELSE passed[i]]

ResolveCollisions(g, moves) == ConflictPass(g, LegalityPass(g, moves), 1, 2)

(***************************************************************************)
(* Grid::ApplyMoves: positions are written by agent id, in list order.     *)
(***************************************************************************)
RECURSIVE ApplyMovesFrom(_, _, _)
ApplyMovesFrom(g, moves, k) ==
    IF k > Len(moves) THEN g
    ELSE LET index == FindAgentIndex(g, moves[k].id)
         IN ApplyMovesFrom(
                IF index > 0
                THEN [g EXCEPT !.agents[index].row = moves[k].row,
                               !.agents[index].col = moves[k].col]
                ELSE g,
                moves, k + 1)

\* The positions applied as above, each agent that changed cell also made to
\* face the way it went.
ApplyMovesTurningAgents(g, moves) ==
    LET applied == ApplyMovesFrom(g, moves, 1)
    IN [applied EXCEPT !.agents =
           [k \in 1..Len(applied.agents) |->
               LET agent == applied.agents[k]
                   old == g.agents[k]
               IN IF agent.row < old.row THEN [agent EXCEPT !.direction = kNorth]
                  ELSE IF agent.col > old.col THEN [agent EXCEPT !.direction = kEast]
                  ELSE IF agent.row > old.row THEN [agent EXCEPT !.direction = kSouth]
                  ELSE IF agent.col < old.col THEN [agent EXCEPT !.direction = kWest]
                  ELSE agent]]

ApplyMoves(g, moves) == ApplyMovesFrom(g, moves, 1)

(***************************************************************************)
(* Grid::ProcessInteractions: the loop body for agents_[i], then the loop. *)
(***************************************************************************)
InteractDoorNeedsKeyToClose(g, i, door_index) ==
    LET agent == g.agents[i]
        door == g.doors[door_index]
    IN IF HasKey(agent.inventory, door.required_key_color)
       THEN [g EXCEPT !.doors[door_index].is_open = ~door.is_open,
                      !.agents[i].inventory = RemoveKey(@, door.required_key_color)]
       ELSE g

InteractDoor(g, i, door_index) ==
    LET agent == g.agents[i]
        door == g.doors[door_index]
    IN IF ~door.is_open /\ HasKey(agent.inventory, door.required_key_color)
       THEN [g EXCEPT !.doors[door_index].is_open = TRUE,
                      !.agents[i].inventory = RemoveKey(@, door.required_key_color)]
       ELSE IF door.is_open
            THEN [g EXCEPT !.doors[door_index].is_open = FALSE]
       ELSE g

\* A pickup that does not look at the size of the inventory.
PickUpIgnoringCapacity(g, i) ==
    LET agent == g.agents[i]
        items == GetGroundItemsAt(g, agent.row, agent.col)
    IN IF Len(items) > 0
       THEN RemoveGroundItem(
                [g EXCEPT !.agents[i].inventory = Append(@, items[1].item)],
                agent.row, agent.col, items[1].item.id)
       ELSE g

PickUp(g, i) ==
    LET agent == g.agents[i]
        items == GetGroundItemsAt(g, agent.row, agent.col)
    IN IF Len(items) > 0 /\ Len(agent.inventory) < kMaxInventorySize
       THEN RemoveGroundItem(
                [g EXCEPT !.agents[i].inventory = Append(@, items[1].item)],
                agent.row, agent.col, items[1].item.id)
       ELSE g

\* An interaction that attempts the pickup after the door branch as well.
InteractAgentDoorThenPickUp(g, i) ==
    LET agent == g.agents[i]
        front == GetNextPosition(agent.row, agent.col, agent.direction)
        door_index == DoorIndexAt(g, front[1], front[2])
    IN IF ~IsWithinBounds(g, front[1], front[2]) THEN g
       ELSE IF door_index > 0 THEN PickUp(InteractDoor(g, i, door_index), i)
       ELSE PickUp(g, i)

\* An interaction that attempts the pickup whatever cell the agent faces.
InteractAgentFacingAnything(g, i) ==
    LET agent == g.agents[i]
        front == GetNextPosition(agent.row, agent.col, agent.direction)
        door_index == DoorIndexAt(g, front[1], front[2])
    IN IF IsWithinBounds(g, front[1], front[2]) /\ door_index > 0
       THEN InteractDoor(g, i, door_index)
       ELSE PickUp(g, i)

InteractAgent(g, i) ==
    LET agent == g.agents[i]
        front == GetNextPosition(agent.row, agent.col, agent.direction)
        door_index == DoorIndexAt(g, front[1], front[2])
    IN IF ~IsWithinBounds(g, front[1], front[2]) THEN g
       ELSE IF door_index > 0 THEN InteractDoor(g, i, door_index)
       ELSE PickUp(g, i)

RECURSIVE InteractFrom(_, _, _)
InteractFrom(g, actions, i) ==
    IF ~(i <= Len(g.agents) /\ i <= Len(actions)) THEN g
    ELSE InteractFrom(
            IF actions[i] # kInteract THEN g ELSE InteractAgent(g, i),
            actions, i + 1)

ProcessInteractions(g, actions) == InteractFrom(g, actions, 1)

(***************************************************************************)
(* Grid::ToString: one character per cell, rows ended by a newline; an     *)
(* agent hides a door, a door hides ground items, ground items hide the    *)
(* cell type.                                                              *)
(***************************************************************************)
DirectionSymbol(dir) ==
    IF dir = kNorth THEN "^" ELSE IF dir = kEast THEN ">"
    ELSE IF dir = kSouth THEN "v" ELSE "<"

CellSymbol(type) ==
    IF type = kEmpty THEN "." ELSE IF type = kWall THEN "#"
    ELSE IF type = kLava THEN "~" ELSE IF type = kGoal THEN "G" ELSE "S"

GridSymbolAt(g, row, col) ==
    IF GetAgentAt(g, row, col) # nullptr
    THEN DirectionSymbol(GetAgentAt(g, row, col).direction)
    ELSE IF GetDoorAt(g, row, col) # nullptr
    THEN (IF GetDoorAt(g, row, col).is_open THEN "/" ELSE "+")
    ELSE IF Len(GetGroundItemsAt(g, row, col)) > 0 THEN "*"
    ELSE CellSymbol(GetCell(g, row, col))

GridToString(g) ==
    [k \in 1..(g.rows * (g.cols + 1)) |->
        IF (k - 1) % (g.cols + 1) = g.cols THEN "\n"
        ELSE GridSymbolAt(g, (k - 1) \div (g.cols + 1), (k - 1) % (g.cols + 1))]

(***************************************************************************)
(* Grid::GetDeadAgents / Grid::RemoveDeadAgents                            *)
(***************************************************************************)
OnLava(g, agent) == GetCell(g, agent.row, agent.col) = kLava

GetDeadAgents(g) ==
    LET dead == SelectSeq(g.agents, LAMBDA a : OnLava(g, a))
    IN [k \in 1..Len(dead) |-> dead[k].id]

RemoveDeadAgentsKeepsAll(g) == g

RemoveDeadAgents(g) ==
    [g EXCEPT !.agents = SelectSeq(@, LAMBDA a : ~OnLava(g, a))]

(***************************************************************************)
(* Setup helpers of CompanionState (PlaceGoal, PlaceSynchroCell, PlaceWall,*)
(* PlaceLava all go through Grid::SetCell).                                *)
(***************************************************************************)
RECURSIVE PlaceCells(_, _, _, _)
PlaceCells(g, positions, type, k) ==
    IF k > Len(positions) THEN g
    ELSE PlaceCells(SetCell(g, positions[k][1], positions[k][2], type),
                    positions, type, k + 1)

PlaceWalls(g, positions) == PlaceCells(g, positions, kWall, 1)

RECURSIVE AddAgents(_, _, _)
AddAgents(g, agents, k) ==
    IF k > Len(agents) THEN g
    ELSE AddAgents(AddAgent(g, agents[k]), agents, k + 1)

(***************************************************************************)
(* CompanionSimpleState::SetupGrid                                         *)
(***************************************************************************)
SimpleAgent(i, rows, cols) ==
    LET agent_col == i % cols
    IN IF agent_col >= cols
       THEN AgentData(i, Max(0, rows - 2 - (i \div cols)), cols - 1, kNorth, <<>>)
       ELSE AgentData(i, rows - 1, agent_col, kNorth, <<>>)

SimpleWalls(rows, cols) ==
    LET goal_row == 0
        goal_col == cols - 1
        horizontal ==
            SelectSeq([k \in 1..Max(0, cols - 2) |-> <<rows \div 2, k>>],
                      LAMBDA p : /\ p[2] # cols \div 2
                                 /\ ~(rows \div 2 = goal_row /\ p[2] = goal_col))
        vertical ==
            SelectSeq([k \in 1..Max(0, (rows \div 2) - 1) |-> <<k, cols \div 2>>],
                      LAMBDA p : ~(p[1] = goal_row /\ cols \div 2 = goal_col))
    IN IF rows >= 5 /\ cols >= 5 THEN horizontal \o vertical ELSE <<>>

SimpleSetupGrid(rows, cols, n) ==
    LET goal == SetCell(Grid(rows, cols), 0, cols - 1, kGoal)
        withAgents == AddAgents(goal, [k \in 1..n |-> SimpleAgent(k - 1, rows, cols)], 1)
    IN [grid |-> PlaceWalls(withAgents, SimpleWalls(rows, cols)),
        goal_row |-> 0, goal_col |-> cols - 1, synchro_positions |-> <<>>]

(***************************************************************************)
(* CompanionSynchroState::SetupGrid                                        *)
(***************************************************************************)
SynchroPerimeter(i, rows, cols) ==
    LET row == IF i < cols THEN 0
               ELSE IF i < cols + rows - 1 THEN i - cols + 1
               ELSE IF i < 2 * cols + rows - 2 THEN rows - 1
               ELSE rows - 1 - (i - 2 * cols - rows + 2)
        col == IF i < cols THEN i
               ELSE IF i < cols + rows - 1 THEN cols - 1
               ELSE IF i < 2 * cols + rows - 2 THEN cols - 1 - (i - cols - rows + 1)
               ELSE 0
    IN <<Max(0, Min(row, rows - 1)), Max(0, Min(col, cols - 1))>>

SynchroCells(rows, cols, n) ==
    IF n = 1 THEN << <<rows \div 2, cols \div 2>> >>
    ELSE IF n = 2 THEN << <<0, 0>>, <<rows - 1, cols - 1>> >>
    ELSE IF n = 3 THEN << <<0, cols \div 2>>, <<rows - 1, 0>>, <<rows - 1, cols - 1>> >>
    ELSE IF n = 4 THEN << <<0, 0>>, <<0, cols - 1>>, <<rows - 1, 0>>,
                          <<rows - 1, cols - 1>> >>
    ELSE [k \in 1..n |-> SynchroPerimeter(k - 1, rows, cols)]

SynchroAgent(i, rows, cols) ==
    LET offset_row == IF i % 2 = 0 THEN 0 ELSE IF i % 4 < 2 THEN -1 ELSE 1
        offset_col == IF (i \div 2) % 2 = 0 THEN 0 ELSE IF i \div 4 < 2 THEN -1 ELSE 1
        agent_row == Max(0, Min((rows \div 2) + offset_row, rows - 1))
        agent_col == Max(0, Min((cols \div 2) + offset_col, cols - 1))
    IN AgentData(i, agent_row, agent_col, kNorth, <<>>)

\* The four PlaceWall calls, in the order of the two loops.
SynchroWalls(rows, cols) ==
    LET mid_row == rows \div 2
        mid_col == cols \div 2
        hcols == SelectSeq([k \in 1..Max(0, cols - 2) |-> k], LAMBDA c : c # mid_col)
        vrows == SelectSeq([k \in 1..Max(0, rows - 2) |-> k], LAMBDA r : r # mid_row)
        horizontal == [k \in 1..(2 * Len(hcols)) |->
                          IF k % 2 = 1 THEN <<mid_row - 1, hcols[(k + 1) \div 2]>>
                          ELSE <<mid_row + 1, hcols[k \div 2]>>]
        vertical == [k \in 1..(2 * Len(vrows)) |->
                          IF k % 2 = 1 THEN <<vrows[(k + 1) \div 2], mid_col - 1>>
                          ELSE <<vrows[k \div 2], mid_col + 1>>]
    IN IF rows >= 6 /\ cols >= 6 THEN horizontal \o vertical ELSE <<>>

SynchroSetupGrid(rows, cols, n) ==
    LET cells == PlaceCells(Grid(rows, cols), SynchroCells(rows, cols, n), kSynchro, 1)
        withAgents == AddAgents(cells, [k \in 1..n |-> SynchroAgent(k - 1, rows, cols)], 1)
    IN [grid |-> PlaceWalls(withAgents, SynchroWalls(rows, cols)),
        goal_row |-> -1, goal_col |-> -1,
        synchro_positions |-> SynchroCells(rows, cols, n)]

(***************************************************************************)
(* A further layout, painted the way a SetupGrid does it: through          *)
(* Grid::SetCell (PlaceLava), Grid::AddDoor, Grid::AddGroundItem and       *)
(* Grid::AddAgent.  It uses the goal rule, with the goal two moves from    *)
(* agent 0 and next to the lava, and puts a door, keys, ground items and   *)
(* lava within reach of a few turns.  Agent 0 starts one item short of     *)
(* kMaxInventorySize, one cell above three ground items, two of which     *)
(* carry the same item id; one more ground item lies on each agent's own   *)
(* cell and on the door's cell.                                            *)
(***************************************************************************)
DoorArenaSetupGrid ==
    LET goal == SetCell(Grid(3, 2), 2, 1, kGoal)
        lava == SetCell(goal, 1, 1, kLava)
        door == AddDoor(lava, DoorData(0, 0, kRed, FALSE))
        item1 == AddGroundItem(door, GroundItem(2, 0, PickableItem(kKey, kRed, 5)))
        item2 == AddGroundItem(item1, GroundItem(2, 0, PickableItem(kTreasure, kBlue, 6)))
        item3 == AddGroundItem(item2, GroundItem(2, 0, PickableItem(kKey, kBlue, 5)))
        item4 == AddGroundItem(item3, GroundItem(1, 0, PickableItem(kTreasure, kRed, 7)))
        item5 == AddGroundItem(item4, GroundItem(0, 1, PickableItem(kKey, kRed, 12)))
        item6 == AddGroundItem(item5, GroundItem(0, 0, PickableItem(kTreasure, kBlue, 13)))
        agent0 == AgentData(0, 1, 0, kNorth,
                            << PickableItem(kKey, kBlue, 1), PickableItem(kKey, kRed, 2),
                               PickableItem(kTreasure, kRed, 3), PickableItem(kKey, kRed, 4),
                               PickableItem(kTreasure, kBlue, 9),
                               PickableItem(kTreasure, kRed, 10),
                               PickableItem(kTreasure, kBlue, 11) >>)
        agent1 == AgentData(1, 0, 1, kWest, << PickableItem(kTreasure, kRed, 8) >>)
    IN [grid |-> AddAgents(item6, <<agent0, agent1>>, 1),
        goal_row |-> 2, goal_col |-> 1, synchro_positions |-> <<>>]

(***************************************************************************)
(* A layout of four agents filling a 2x2 block, built with Grid::AddAgent: *)
(* the smallest position from which a rotation of more than two agents can *)
(* be submitted.  No goal is placed, so goal_row_ and goal_col_ keep the   *)
(* -1 the CompanionSimpleState constructor gives them.                     *)
(***************************************************************************)
RotationArenaSetupGrid ==
    LET ring == << AgentData(0, 0, 0, kNorth, <<>>), AgentData(1, 0, 1, kNorth, <<>>),
                   AgentData(2, 1, 1, kNorth, <<>>), AgentData(3, 1, 0, kNorth, <<>>) >>
    IN [grid |-> AddAgents(Grid(2, 2), ring, 1),
        goal_row |-> -1, goal_col |-> -1, synchro_positions |-> <<>>]

(***************************************************************************)
(* The configurations explored: game parameters rows, cols, horizon and    *)
(* num_agents (CompanionGame::CompanionGame checks all four positive and   *)
(* num_agents <= kMaxAgents) for the two registered games, and the two    *)
(* layouts above.                                                          *)
(***************************************************************************)
Horizons == 1..MaxHorizon

GameShapes ==
    { <<1, 1, 1>>, <<1, 3, 1>>, <<2, 2, 2>>, <<3, 3, 2>>, <<5, 5, 2>> }

\* Game::ParameterValue<int>(key, default): the value given for the key, or
\* else the default the caller passes.
ParameterValue(params, key, default_value) ==
    IF key \in DOMAIN params THEN params[key] ELSE default_value

\* CompanionGame::CompanionGame: the four members read from the parameters.
CompanionGame(params) ==
    [rows |-> ParameterValue(params, "rows", 8),
     cols |-> ParameterValue(params, "cols", 8),
     horizon |-> ParameterValue(params, "horizon", 100),
     num_agents |-> ParameterValue(params, "num_agents", 2)]

\* A game object of the given variant built from a parameter map, with the
\* layout its states are set up with.
NewGame(l, v, params) ==
    LET game == CompanionGame(params)
    IN [layout |-> l, variant |-> v, params |-> params,
        rows |-> game.rows, cols |-> game.cols,
        num_agents |-> game.num_agents, horizon |-> game.horizon]

Configs ==
    { NewGame("game", v, [rows |-> s[1], cols |-> s[2], horizon |-> h,
                          num_agents |-> s[3]]) :
          v \in {"simple", "synchro"}, s \in GameShapes, h \in Horizons }
    \cup { NewGame("game", "synchro",
                   [rows |-> 6, cols |-> 6, horizon |-> 1, num_agents |-> 4]),
           NewGame("game", "synchro",
                   [rows |-> 3, cols |-> 3, horizon |-> 2, num_agents |-> 3]),
           NewGame("game", "synchro",
                   [rows |-> 1, cols |-> 1, horizon |-> 1, num_agents |-> 2]),
           NewGame("game", "synchro",
                   [rows |-> 6, cols |-> 6, horizon |-> 1, players |-> 4]) }
    \cup { NewGame("door_arena", "simple",
                   [rows |-> 3, cols |-> 2, horizon |-> h, num_agents |-> 2]) :
             h \in 1..MaxArenaHorizon }
    \cup { NewGame("rotation_arena", "simple",
                   [rows |-> 2, cols |-> 2, horizon |-> 1, num_agents |-> 4]) }

SetupGrid(cfg) ==
    IF cfg.layout = "door_arena" THEN DoorArenaSetupGrid
    ELSE IF cfg.layout = "rotation_arena" THEN RotationArenaSetupGrid
    ELSE IF cfg.variant = "simple"
         THEN SimpleSetupGrid(cfg.rows, cfg.cols, cfg.num_agents)
    ELSE SynchroSetupGrid(cfg.rows, cfg.cols, cfg.num_agents)

(***************************************************************************)
(* State of one episode (CompanionState and its derived classes).          *)
(***************************************************************************)
VARIABLES
    game_parameters,    \* Game::game_parameters_, the map the game was built from
    layout,             \* which SetupGrid built the grid
    variant,            \* the derived class: "simple" or "synchro"
    grid,               \* grid_
    goal_row,           \* CompanionSimpleState::goal_row_
    goal_col,           \* CompanionSimpleState::goal_col_
    synchro_positions,  \* CompanionSynchroState::synchro_positions_
    horizon,            \* horizon_
    num_agents,         \* num_agents_
    timestep,           \* timestep_
    rewards,            \* rewards_, indexed by player 0..num_agents-1
    returns,            \* returns_
    is_terminal,        \* is_terminal_
    clones,             \* the states Clone() has returned, in creation order
    lastCall,           \* the last call: "none", "applied", "ignored" (DoApplyActions on
                        \* this state), "cloned", "applied_to_clone"
    nTurns,             \* number of turns processed so far
    turn                \* record of the last processed turn (see TurnRecord)

config == <<game_parameters, layout, variant, goal_row, goal_col, synchro_positions, horizon, num_agents>>
episode == <<grid, timestep, rewards, returns, is_terminal>>
vars == <<config, episode, clones, lastCall, nTurns, turn>>

\* CompanionGame::NumPlayers
NumPlayers == num_agents

Players == 0..(num_agents - 1)

(***************************************************************************)
(* CompanionState::IsTerminal                                              *)
(***************************************************************************)
IsTerminalStrict == is_terminal \/ timestep > horizon

IsTerminal == is_terminal \/ timestep >= horizon

(***************************************************************************)
(* CompanionState::CurrentPlayer and CompanionState::LegalActions.  The    *)
(* two sentinels are the host framework's player ids.                      *)
(***************************************************************************)
kSimultaneousPlayerId == -2

kTerminalPlayerId == -4

CurrentPlayerByFlag == IF is_terminal THEN kTerminalPlayerId ELSE kSimultaneousPlayerId

CurrentPlayer == IF IsTerminal THEN kTerminalPlayerId ELSE kSimultaneousPlayerId

LegalActionsOfAgentsOnGrid(player) ==
    IF IsTerminal \/ GetAgent(grid, player) = nullptr THEN <<>>
    ELSE [k \in 1..kNumActions |-> k - 1]

LegalActions(player) ==
    IF IsTerminal THEN <<>>
    ELSE [k \in 1..kNumActions |-> k - 1]

(***************************************************************************)
(* CompanionState::ActionToActionType                                      *)
(***************************************************************************)
ActionToActionTypeClamped(action) ==
    IF action < 0 THEN kNorth ELSE IF action >= kNumActions THEN kStay ELSE action

ActionToActionType(action) ==
    IF action < 0 \/ action >= kNumActions THEN kStay ELSE action

\* DoApplyActions, the conversion loop: one typed action per player.
TypedActions(actions, n) ==
    [i \in 1..n |->
        ActionToActionType(IF i <= Len(actions) THEN actions[i] ELSE kStay)]

(***************************************************************************)
(* CheckTermination / ComputeRewards of the two derived classes.           *)
(***************************************************************************)
SimpleCheckTerminationAllAgents(g, grow, gcol) ==
    /\ Len(g.agents) > 0
    /\ \A k \in 1..Len(g.agents) : g.agents[k].row = grow /\ g.agents[k].col = gcol

SimpleCheckTermination(g, grow, gcol) ==
    \E k \in 1..Len(g.agents) : g.agents[k].row = grow /\ g.agents[k].col = gcol

SynchroOccupied(g, positions) ==
    { positions[k] : k \in { m \in 1..Len(positions) :
        \E a \in 1..Len(g.agents) :
            /\ g.agents[a].row = positions[m][1]
            /\ g.agents[a].col = positions[m][2]
            /\ \A e \in 1..(m - 1) :
                  ~(g.agents[a].row = positions[e][1] /\ g.agents[a].col = positions[e][2]) } }

SynchroCheckTerminationAny(g, positions) ==
    Cardinality(SynchroOccupied(g, positions)) >= 1

SynchroCheckTermination(g, positions) ==
    Cardinality(SynchroOccupied(g, positions)) = Len(positions)

CheckTermination(v, g, grow, gcol, positions) ==
    IF v = "simple" THEN SimpleCheckTermination(g, grow, gcol)
    ELSE SynchroCheckTermination(g, positions)

ComputeRewardsForGoalAgentOnly(v, g, grow, gcol, positions, n) ==
    [p \in 0..(n - 1) |->
        IF /\ CheckTermination(v, g, grow, gcol, positions)
           /\ GetAgent(g, p) # nullptr
           /\ v = "simple" => (GetAgent(g, p).row = grow /\ GetAgent(g, p).col = gcol)
        THEN kSuccessReward ELSE 0]

ComputeRewards(v, g, grow, gcol, positions, n) ==
    [p \in 0..(n - 1) |->
        IF CheckTermination(v, g, grow, gcol, positions) THEN kSuccessReward ELSE 0]

(***************************************************************************)
(* CompanionState::ProcessTimestep, step by step.                          *)
(***************************************************************************)
\* std::fill(rewards_, kStepReward)
StepRewards(n) == [p \in 0..(n - 1) |-> kStepReward]

\* The death-penalty loop over GetDeadAgents().
DeathRewardsAdded(r, dead) ==
    [p \in DOMAIN r |->
        IF \E k \in 1..Len(dead) : dead[k] = p THEN r[p] + kDeathPenalty ELSE r[p]]

DeathRewards(r, dead) ==
    [p \in DOMAIN r |->
        IF \E k \in 1..Len(dead) : dead[k] = p /\ dead[k] < Cardinality(DOMAIN r)
        THEN kDeathPenalty ELSE r[p]]

\* What each interacting agent's loop iteration of ProcessInteractions saw and
\* left behind: the faced cell, the door there and the agent's inventory and
\* the ground items, before and after the iteration.
InteractionEntry(before, after, i) ==
    LET agent == before.agents[i]
        front == GetNextPosition(agent.row, agent.col, agent.direction)
    IN [id |-> agent.id, row |-> agent.row, col |-> agent.col, front |-> front,
        in_bounds |-> IsWithinBounds(before, front[1], front[2]),
        door_before |-> GetDoorAt(before, front[1], front[2]),
        door_after |-> GetDoorAt(after, front[1], front[2]),
        inventory_before |-> agent.inventory,
        inventory_after |-> after.agents[i].inventory,
        ground_before |-> before.ground_items,
        ground_after |-> after.ground_items,
        doors_before |-> before.doors,
        doors_after |-> after.doors]

RECURSIVE InteractionLog(_, _, _)
InteractionLog(g, actions, i) ==
    IF ~(i <= Len(g.agents) /\ i <= Len(actions)) THEN <<>>
    ELSE IF actions[i] # kInteract THEN InteractionLog(g, actions, i + 1)
    ELSE <<InteractionEntry(g, InteractAgent(g, i), i)>>
            \o InteractionLog(InteractAgent(g, i), actions, i + 1)

\* The mutable members of a state object, and those of this state.
StateObject(g, t, rw, rt, term) ==
    [grid |-> g, timestep |-> t, rewards |-> rw, returns |-> rt, is_terminal |-> term]

This == StateObject(grid, timestep, rewards, returns, is_terminal)

\* A turn that processes the interactions before the movement phase.
ProcessTimestepOfInteractingFirst(s, typed_actions) ==
    LET step == StepRewards(num_agents)
        first == ProcessInteractions(s.grid, typed_actions)
        moves == PredictMoves(first, typed_actions)
        resolved == ResolveCollisions(first, moves)
        moved == ApplyMoves(first, resolved)
        interacted == moved
        dead == GetDeadAgents(interacted)
        death == DeathRewards(step, dead)
        final == RemoveDeadAgents(interacted)
        terminal == CheckTermination(variant, final, goal_row, goal_col,
                                     synchro_positions)
        bonus == ComputeRewards(variant, final, goal_row, goal_col,
                                synchro_positions, num_agents)
        turn_rewards == [p \in DOMAIN death |->
                            IF terminal /\ p \in DOMAIN bonus
                            THEN death[p] + bonus[p] ELSE death[p]]
    IN [typed |-> typed_actions, pre |-> s.grid, moves |-> moves,
        resolved |-> resolved, moved |-> moved,
        dead |-> dead, grid |-> final, is_terminal |-> terminal,
        rewards |-> turn_rewards,
        returns |-> [p \in DOMAIN s.returns |->
                        IF p \in DOMAIN turn_rewards
                        THEN s.returns[p] + turn_rewards[p] ELSE s.returns[p]],
        timestep |-> s.timestep + 1]

\* All intermediate and final values of one turn of the state object s, in
\* pipeline order.
ProcessTimestepOf(s, typed_actions) ==
    LET step == StepRewards(num_agents)
        moves == PredictMoves(s.grid, typed_actions)
        resolved == ResolveCollisions(s.grid, moves)
        moved == ApplyMoves(s.grid, resolved)
        interacted == ProcessInteractions(moved, typed_actions)
        dead == GetDeadAgents(interacted)
        death == DeathRewards(step, dead)
        final == RemoveDeadAgents(interacted)
        terminal == CheckTermination(variant, final, goal_row, goal_col,
                                     synchro_positions)
        bonus == ComputeRewards(variant, final, goal_row, goal_col,
                                synchro_positions, num_agents)
        turn_rewards == [p \in DOMAIN death |->
                            IF terminal /\ p \in DOMAIN bonus
                            THEN death[p] + bonus[p] ELSE death[p]]
    IN [typed |-> typed_actions, pre |-> s.grid, moves |-> moves,
        resolved |-> resolved, moved |-> moved,
        dead |-> dead, grid |-> final, is_terminal |-> terminal,
        rewards |-> turn_rewards,
        returns |-> [p \in DOMAIN s.returns |->
                        IF p \in DOMAIN turn_rewards
                        THEN s.returns[p] + turn_rewards[p] ELSE s.returns[p]],
        timestep |-> s.timestep + 1]

ProcessTimestep(typed_actions) == ProcessTimestepOf(This, typed_actions)

\* The record kept of the last processed turn.
TurnRecord(actions, t) ==
    [raw |-> actions, typed |-> t.typed, pre |-> t.pre, moves |-> t.moves,
     moved |-> t.moved, log |-> InteractionLog(t.moved, t.typed, 1),
     dead |-> t.dead]

NoTurn ==
    [raw |-> <<>>, typed |-> <<>>, pre |-> Grid(0, 0), moves |-> <<>>,
     moved |-> Grid(0, 0), log |-> <<>>, dead |-> <<>>]

(***************************************************************************)
(* CompanionState::WriteObservationTensor.  The tensor is the flat array   *)
(* of GetObservationTensorSize() values, indexed from 0; set_value writes  *)
(* at plane * rows * cols + row * cols + col and drops a write whose index *)
(* is not below the size.                                                  *)
(***************************************************************************)
GetNumObservationPlanes == 10

GetObservationTensorSize(g) == GetNumObservationPlanes * g.rows * g.cols

TensorIndex(g, plane, row, col) == plane * g.rows * g.cols + row * g.cols + col

\* A tensor whose cell-type planes leave out the cells agents stand on.
WriteObservationTensorCellsUnderAgentsBlank(g, player) ==
    LET cell_ones == { TensorIndex(g, GetCell(g, cell[1], cell[2]), cell[1], cell[2]) :
                          cell \in { rc \in (0..(g.rows - 1)) \X (0..(g.cols - 1)) :
                                        GetAgentAt(g, rc[1], rc[2]) = nullptr } }
        agent_ones == { TensorIndex(g, 5, g.agents[k].row, g.agents[k].col) :
                          k \in 1..Len(g.agents) }
        player_agent == GetAgent(g, player)
        player_ones == IF player_agent # nullptr
                       THEN { TensorIndex(g, 6, player_agent.row, player_agent.col) }
                       ELSE {}
    IN [index \in 0..(GetObservationTensorSize(g) - 1) |->
            IF index \in cell_ones \cup agent_ones \cup player_ones THEN 1 ELSE 0]

\* A tensor whose plane 6 marks the first agent of the store, whoever asks.
WriteObservationTensorFirstAgentAsPlayer(g, player) ==
    LET cell_ones == { TensorIndex(g, GetCell(g, r, c), r, c) :
                          r \in 0..(g.rows - 1), c \in 0..(g.cols - 1) }
        agent_ones == { TensorIndex(g, 5, g.agents[k].row, g.agents[k].col) :
                          k \in 1..Len(g.agents) }
        player_ones == IF Len(g.agents) > 0
                       THEN { TensorIndex(g, 6, g.agents[1].row, g.agents[1].col) }
                       ELSE {}
    IN [index \in 0..(GetObservationTensorSize(g) - 1) |->
            IF index \in cell_ones \cup agent_ones \cup player_ones THEN 1 ELSE 0]

WriteObservationTensor(g, player) ==
    LET cell_ones == { TensorIndex(g, GetCell(g, r, c), r, c) :
                          r \in 0..(g.rows - 1), c \in 0..(g.cols - 1) }
        agent_ones == { TensorIndex(g, 5, g.agents[k].row, g.agents[k].col) :
                          k \in 1..Len(g.agents) }
        player_agent == GetAgent(g, player)
        player_ones == IF player_agent # nullptr
                       THEN { TensorIndex(g, 6, player_agent.row, player_agent.col) }
                       ELSE {}
        closed_ones == { TensorIndex(g, 7, g.doors[k].row, g.doors[k].col) :
                          k \in { d \in 1..Len(g.doors) : ~g.doors[d].is_open } }
        open_ones == { TensorIndex(g, 8, g.doors[k].row, g.doors[k].col) :
                          k \in { d \in 1..Len(g.doors) : g.doors[d].is_open } }
        item_ones == { TensorIndex(g, 9, g.ground_items[k].row, g.ground_items[k].col) :
                          k \in 1..Len(g.ground_items) }
        ones == cell_ones \cup agent_ones \cup player_ones \cup closed_ones
                    \cup open_ones \cup item_ones
    IN [index \in 0..(GetObservationTensorSize(g) - 1) |->
            IF index \in ones THEN 1 ELSE 0]

(***************************************************************************)
(* Construction: CompanionState::CompanionState followed by the derived    *)
(* class's SetupGrid.                                                      *)
(***************************************************************************)
Init ==
    \E cfg \in Configs :
        LET setup == SetupGrid(cfg)
        IN /\ game_parameters = cfg.params
           /\ layout = cfg.layout
           /\ variant = cfg.variant
           /\ grid = setup.grid
           /\ goal_row = setup.goal_row
           /\ goal_col = setup.goal_col
           /\ synchro_positions = setup.synchro_positions
           /\ horizon = cfg.horizon
           /\ num_agents = cfg.num_agents
           /\ timestep = 0
           /\ rewards = [p \in 0..(cfg.num_agents - 1) |-> 0]
           /\ returns = [p \in 0..(cfg.num_agents - 1) |-> 0]
           /\ is_terminal = FALSE
           /\ clones = <<>>
           /\ lastCall = "none"
           /\ nTurns = 0
           /\ turn = NoTurn

(***************************************************************************)
(* The action vectors a caller may submit: any length up to num_agents,    *)
(* entries inside and just outside the action range.                       *)
(***************************************************************************)
RawActions == (-1)..kNumActions

ActionVectors(n) == UNION { [1..len -> RawActions] : len \in 0..n }

(***************************************************************************)
(* CompanionState::DoApplyActions                                          *)
(***************************************************************************)
DoApplyActionsUnguarded(actions) ==
    \E t \in {ProcessTimestep(TypedActions(actions, num_agents))} :
       /\ grid' = t.grid
       /\ timestep' = t.timestep
       /\ rewards' = t.rewards
       /\ returns' = t.returns
       /\ is_terminal' = t.is_terminal
       /\ lastCall' = "applied"
       /\ nTurns' = nTurns + 1
       /\ turn' = TurnRecord(actions, t)
       /\ UNCHANGED <<config, clones>>

DoApplyActions(actions) ==
    IF IsTerminal
    THEN /\ lastCall' = "ignored"
         /\ UNCHANGED <<config, episode, clones, nTurns, turn>>
    ELSE \E t \in {ProcessTimestep(TypedActions(actions, num_agents))} :
            /\ grid' = t.grid
            /\ timestep' = t.timestep
            /\ rewards' = t.rewards
            /\ returns' = t.returns
            /\ is_terminal' = t.is_terminal
            /\ lastCall' = "applied"
            /\ nTurns' = nTurns + 1
            /\ turn' = TurnRecord(actions, t)
            /\ UNCHANGED <<config, clones>>

\* Once the state is terminal DoApplyActions returns before it reads the
\* vector, so there the empty, the all-Stay and the all-North vector stand for
\* every submission.
Submissions ==
    IF IsTerminal
    THEN { <<>>, [i \in 1..num_agents |-> kStay], [i \in 1..num_agents |-> kNorth] }
    ELSE ActionVectors(num_agents)

Next == \E actions \in Submissions : DoApplyActions(actions)

Spec == Init /\ [][Next]_vars

(***************************************************************************)
(* CompanionState::ToString: environment name, timestep/horizon, the       *)
(* is_terminal_ flag, the returns and the grid picture, as the sequence of *)
(* the pieces written to the stream.  (Named StateToString: the TLC module *)
(* already defines ToString.)                                              *)
(***************************************************************************)
GetEnvironmentName == IF variant = "simple" THEN "CompanionSimple" ELSE "CompanionSynchro"

StateToString(s) ==
    << GetEnvironmentName, " State:\n",
       "Timestep: ", s.timestep, "/", horizon, "\n",
       "Terminal: ", (IF s.is_terminal THEN "true" ELSE "false"), "\n",
       "Returns: [", [k \in 1..num_agents |-> s.returns[k - 1]], "]\n\n" >>
    \o GridToString(s.grid)

IsTerminalOf(s) == s.is_terminal \/ s.timestep >= horizon

(***************************************************************************)
(* Clone(): the derived classes copy-construct the state; every member is  *)
(* held by value (Grid with its four vectors, the reward and return        *)
(* vectors, the counters), so the copy constructors copy member by member. *)
(***************************************************************************)
GridCopy(g) ==
    [rows |-> g.rows, cols |-> g.cols, cells |-> g.cells,
     agents |-> g.agents, doors |-> g.doors, ground_items |-> g.ground_items]

CloneWithFreshReturns(s) ==
    StateObject(GridCopy(s.grid), s.timestep, s.rewards,
                [p \in DOMAIN s.returns |-> 0], s.is_terminal)

Clone(s) ==
    StateObject(GridCopy(s.grid), s.timestep, s.rewards, s.returns, s.is_terminal)

\* DoApplyActions on a state object other than this one: its members after
\* the call.
DoApplyActionsOf(s, actions) ==
    IF IsTerminalOf(s) THEN s
    ELSE CHOOSE after \in
            { StateObject(t.grid, t.timestep, t.rewards, t.returns, t.is_terminal) :
                 t \in {ProcessTimestepOf(s, TypedActions(actions, num_agents))} } : TRUE

(***************************************************************************)
(* Episodes with clones: this state is played on, cloned, and its clones   *)
(* are played on separately.                                               *)
(***************************************************************************)
MaxClones == 2

CloneActions == {kEast, kSouth, kInteract}

CloneSubmissions == [1..num_agents -> CloneActions]

CloneInit ==
    /\ Init
    /\ \/ num_agents = 1 /\ horizon <= 2
       \/ num_agents = 2 /\ horizon = 1 /\ grid.rows * grid.cols <= 6

CloneThis ==
    /\ Len(clones) < MaxClones
    /\ clones' = Append(clones, Clone(This))
    /\ lastCall' = "cloned"
    /\ UNCHANGED <<config, episode, nTurns, turn>>

ApplyToClone(k, actions) ==
    /\ clones' = [clones EXCEPT ![k] = DoApplyActionsOf(clones[k], actions)]
    /\ lastCall' = "applied_to_clone"
    /\ UNCHANGED <<config, episode, nTurns, turn>>

CloneNext ==
    \/ \E actions \in CloneSubmissions : DoApplyActions(actions)
    \/ CloneThis
    \/ \E k \in 1..Len(clones) : \E actions \in CloneSubmissions : ApplyToClone(k, actions)

CloneSpec == CloneInit /\ [][CloneNext]_vars

(***************************************************************************)
(* Properties.  turn.pre is the grid before the last processed turn,       *)
(* turn.moves the list PredictMoves produced from it, turn.moved the grid  *)
(* after ApplyMoves (agents keep their index during the movement phase),   *)
(* turn.log the interactions in processing order.                          *)
(***************************************************************************)
MoveIndices == 1..Len(turn.moves)

\* The move of index i is a real move: its predicted cell is not the agent's own.
Moves(i) ==
    \/ turn.moves[i].row # turn.pre.agents[i].row
    \/ turn.moves[i].col # turn.pre.agents[i].col

SameTarget(i, j) ==
    turn.moves[i].row = turn.moves[j].row /\ turn.moves[i].col = turn.moves[j].col

\* Agent of index i is, after the movement phase, where it was before the turn.
AtPreTurnPosition(i) ==
    /\ turn.moved.agents[i].row = turn.pre.agents[i].row
    /\ turn.moved.agents[i].col = turn.pre.agents[i].col

ClosedDoorOn(g, row, col) ==
    \E k \in 1..Len(g.doors) :
        g.doors[k].row = row /\ g.doors[k].col = col /\ ~g.doors[k].is_open

\* Out of bounds, a Wall, or a closed door: written out, not through CanMoveTo.
Blocked(g, row, col) ==
    \/ row < 0 \/ row >= g.rows \/ col < 0 \/ col >= g.cols
    \/ g.cells[row * g.cols + col + 1] = kWall
    \/ ClosedDoorOn(g, row, col)

HoldsKeyOf(inventory, color) ==
    \E k \in 1..Len(inventory) :
        inventory[k].type = kKey /\ inventory[k].color = color

LogIndices == 1..Len(turn.log)

FacesDoor(e) == e.in_bounds /\ e.door_before # nullptr

\* C1: in every reachable state every agent on the grid is inside
\* [0,rows) x [0,cols) and its cell is not a Wall.
C1_AgentsInBoundsOffWalls ==
    \A k \in 1..Len(grid.agents) :
        /\ grid.agents[k].row >= 0 /\ grid.agents[k].row < grid.rows
        /\ grid.agents[k].col >= 0 /\ grid.agents[k].col < grid.cols
        /\ grid.cells[grid.agents[k].row * grid.cols + grid.agents[k].col + 1] # kWall

\* C2: once the state is terminal a submission changes nothing of the episode
\* (grid with agents, doors and items, timestep, rewards, returns, terminal
\* flag), so the state stays terminal.
C2_TerminalIsAbsorbing ==
    [][(is_terminal \/ timestep >= horizon)
          => /\ UNCHANGED <<config, episode>>
             /\ (is_terminal' \/ timestep' >= horizon')]_vars

\* A terminal state on which an action vector was submitted.
C2_SubmittedWhenTerminal ==
    /\ is_terminal \/ timestep >= horizon
    /\ lastCall = "ignored"

\* C3 as stated: if the variant's condition was never met, the state is not
\* terminal after fewer than H turns and terminal after H turns, and then
\* every player's return is H step penalties.
C3_HorizonAllPlayers ==
    ~is_terminal =>
        /\ nTurns < horizon => ~IsTerminal
        /\ nTurns = horizon =>
              /\ IsTerminal
              /\ \A p \in Players : returns[p] = horizon * kStepReward

\* C3 amended: as above, but the return is exactly H step penalties for the
\* agents still on the grid; no player's return holds a bonus (it is at most
\* H step penalties).
C3_HorizonLivingAgents ==
    ~is_terminal =>
        /\ nTurns <= horizon
        /\ nTurns < horizon => ~IsTerminal
        /\ nTurns = horizon =>
              /\ IsTerminal
              /\ \A k \in 1..Len(grid.agents) :
                    returns[grid.agents[k].id] = horizon * kStepReward
              /\ \A p \in Players : returns[p] <= horizon * kStepReward

\* The horizon was reached without the variant's condition, with one agent
\* dead and another alive.
C3_HorizonReachedAfterDeath ==
    /\ ~is_terminal /\ nTurns = horizon /\ horizon >= 2
    /\ Len(grid.agents) > 0 /\ Len(grid.agents) < num_agents

\* C4: two agents at different cells whose moves have the same legal
\* destination are both at their pre-turn positions after the movement phase.
C4_DoubleBounce ==
    \A i \in MoveIndices : \A j \in MoveIndices :
        ( /\ i # j
          /\ Moves(i) /\ Moves(j) /\ SameTarget(i, j)
          /\ ~Blocked(turn.pre, turn.moves[i].row, turn.moves[i].col)
          /\ \/ turn.pre.agents[i].row # turn.pre.agents[j].row
             \/ turn.pre.agents[i].col # turn.pre.agents[j].col )
        => AtPreTurnPosition(i) /\ AtPreTurnPosition(j)

\* The agents that attempt a legal move into the cell (row, col).
Contenders(row, col) ==
    { i \in MoveIndices :
        /\ Moves(i)
        /\ turn.moves[i].row = row /\ turn.moves[i].col = col
        /\ ~Blocked(turn.pre, row, col) }

\* C5: when k >= 2 agents attempt a legal move into the same cell, each of
\* them ends the movement phase at its pre-turn position and none is in the
\* contested cell.
C5_AllContendersBounce ==
    \A row \in 0..(turn.pre.rows - 1) : \A col \in 0..(turn.pre.cols - 1) :
        Cardinality(Contenders(row, col)) >= 2 =>
            \A i \in Contenders(row, col) :
                /\ AtPreTurnPosition(i)
                /\ ~(turn.moved.agents[i].row = row /\ turn.moved.agents[i].col = col)

\* C6: an agent whose predicted destination is out of bounds, a Wall or a
\* cell with a door closed at the start of the turn is at its pre-turn
\* position after the movement phase.
C6_LegalityRevert ==
    \A i \in MoveIndices :
        Blocked(turn.pre, turn.moves[i].row, turn.moves[i].col)
            => AtPreTurnPosition(i)

\* In one turn an agent moved toward a closed door and another out of bounds.
C6_BlockedMovesTried ==
    \E i \in MoveIndices : \E j \in MoveIndices :
        /\ Moves(i) /\ ClosedDoorOn(turn.pre, turn.moves[i].row, turn.moves[i].col)
        /\ Moves(j) /\ turn.moves[j].col < 0

\* C7: an Interact facing a closed door by an agent holding no Key of the
\* required color leaves the door closed and the inventory as it was.
C7_NoKeyNoOpen ==
    \A n \in LogIndices :
        LET e == turn.log[n]
        IN ( /\ FacesDoor(e) /\ ~e.door_before.is_open
             /\ ~HoldsKeyOf(e.inventory_before, e.door_before.required_key_color) )
           => /\ ~e.door_after.is_open
              /\ e.inventory_after = e.inventory_before

\* Such an Interact by an agent that holds a Treasure of the required color.
C7_TreasureHolderTried ==
    \E n \in LogIndices :
        LET e == turn.log[n]
        IN /\ FacesDoor(e) /\ ~e.door_before.is_open
           /\ ~HoldsKeyOf(e.inventory_before, e.door_before.required_key_color)
           /\ \E k \in 1..Len(e.inventory_before) :
                 /\ e.inventory_before[k].type = kTreasure
                 /\ e.inventory_before[k].color = e.door_before.required_key_color

\* C8: an Interact facing a closed door by an agent holding a Key of the
\* required color opens the door and removes exactly one item from the
\* inventory, a Key of that color, keeping the others in order.
C8_KeyOpensAndIsConsumed ==
    \A n \in LogIndices :
        LET e == turn.log[n]
        IN ( /\ FacesDoor(e) /\ ~e.door_before.is_open
             /\ HoldsKeyOf(e.inventory_before, e.door_before.required_key_color) )
           => /\ e.door_after.is_open
              /\ Len(e.inventory_after) = Len(e.inventory_before) - 1
              /\ \E k \in 1..Len(e.inventory_before) :
                    /\ e.inventory_before[k].type = kKey
                    /\ e.inventory_before[k].color = e.door_before.required_key_color
                    /\ e.inventory_after =
                          [m \in 1..(Len(e.inventory_before) - 1) |->
                              IF m < k THEN e.inventory_before[m]
                              ELSE e.inventory_before[m + 1]]

\* A door was opened by an agent holding two Keys of the required color and
\* other items besides.
C8_OpenedWithSpareKey ==
    \E n \in LogIndices :
        LET e == turn.log[n]
            req == e.door_before.required_key_color
        IN /\ FacesDoor(e) /\ ~e.door_before.is_open
           /\ Cardinality({ k \in 1..Len(e.inventory_before) :
                 e.inventory_before[k].type = kKey
                 /\ e.inventory_before[k].color = req }) >= 2
           /\ \E k \in 1..Len(e.inventory_before) : e.inventory_before[k].color # req

\* C9: an Interact facing an open door closes it, key or no key, and leaves
\* the inventory as it was.
C9_OpenDoorCloses ==
    \A n \in LogIndices :
        LET e == turn.log[n]
        IN (FacesDoor(e) /\ e.door_before.is_open)
           => /\ ~e.door_after.is_open
              /\ e.inventory_after = e.inventory_before

\* An Interact on an open door by an agent holding a Key of the door's color.
C9_ClosedWhileHoldingKey ==
    \E n \in LogIndices :
        LET e == turn.log[n]
        IN /\ FacesDoor(e) /\ e.door_before.is_open
           /\ HoldsKeyOf(e.inventory_before, e.door_before.required_key_color)

\* C10: on a turn that did not make the variant's condition true, an agent
\* that ended the movement phase on Lava has turn reward -100 and every other
\* agent then on the grid has turn reward -1.
C10_DeathAccounting ==
    ~is_terminal =>
        \A i \in 1..Len(turn.moved.agents) :
            LET a == turn.moved.agents[i]
            IN IF turn.moved.cells[a.row * turn.moved.cols + a.col + 1] = kLava
               THEN rewards[a.id] = -100
               ELSE rewards[a.id] = -1

\* A turn that did not end the episode in which one agent walked onto Lava
\* and another did not.
C10_OneDiesOneLives ==
    /\ ~is_terminal /\ timestep < horizon
    /\ \E i \in 1..Len(turn.moved.agents) : \E j \in 1..Len(turn.moved.agents) :
          LET a == turn.moved.agents[i]
              b == turn.moved.agents[j]
          IN /\ turn.moved.cells[a.row * turn.moved.cols + a.col + 1] = kLava
             /\ turn.moved.cells[b.row * turn.moved.cols + b.col + 1] # kLava

\* The cells that observation plane `plane` marks for the observing player.
PlaneCells(g, player, plane) ==
    LET tensor == WriteObservationTensor(g, player)
    IN { cell \in (0..(g.rows - 1)) \X (0..(g.cols - 1)) :
            tensor[TensorIndex(g, plane, cell[1], cell[2])] = 1 }

\* Player p has no agent in the store, plane 6 of its own observation is
\* empty, and plane 5 marks exactly the cells of the agents in the store.
AbsentFromGrid(g, p) ==
    /\ \A k \in 1..Len(g.agents) : g.agents[k].id # p
    /\ PlaneCells(g, p, 6) = {}
    /\ PlaneCells(g, p, 5) =
          { <<g.agents[k].row, g.agents[k].col>> :
               k \in { a \in 1..Len(g.agents) : g.agents[a].id # p } }

\* C11: an agent that is on Lava at the death check of a turn is absent from
\* the store and from planes 5 and 6 after that turn, an absent agent stays
\* absent over every later step, and rewards and returns keep one slot per
\* player.
C11_DeadAgentsStayRemoved ==
    [][ /\ \A p \in Players :
              ( \/ lastCall' = "applied" /\ \E k \in 1..Len(turn'.dead) : turn'.dead[k] = p
                \/ \A k \in 1..Len(grid.agents) : grid.agents[k].id # p )
              => AbsentFromGrid(grid', p)
        /\ DOMAIN rewards' = Players
        /\ DOMAIN returns' = Players ]_vars

\* A turn was processed after an earlier turn removed an agent.
C11_TurnAfterRemoval ==
    /\ lastCall = "applied" /\ nTurns >= 2
    /\ Len(grid.agents) < num_agents
    /\ turn.dead = <<>>
    /\ Len(grid.agents) > 0

\* What a caller can read of a state object: its string, the observation
\* tensor of every player, and IsTerminal().
StateView(s) ==
    [string |-> StateToString(s),
     tensor |-> [p \in Players |-> WriteObservationTensor(s.grid, p)],
     terminal |-> IsTerminalOf(s)]

CorridorStepIntoGoal ==
    /\ variant = "simple" /\ layout = "game"
    /\ grid.rows = 1 /\ num_agents = 1 /\ nTurns >= 1
    /\ turn.typed = <<kEast>>
    /\ Len(turn.pre.agents) = 1
    /\ turn.pre.agents[1].row = goal_row
    /\ turn.pre.agents[1].col = goal_col - 1

\* C13: in the goal variant the goal of a registered game is (0, cols-1);
\* after a turn the variant's flag is set exactly when an agent of the store
\* stands on the goal cell; the corridor step into the goal ends the episode
\* with turn reward -1 + 100.
C13_GoalTermination ==
    (variant = "simple" /\ nTurns >= 1) =>
        /\ layout = "game" => (goal_row = 0 /\ goal_col = grid.cols - 1)
        /\ is_terminal <=>
              \E k \in 1..Len(grid.agents) :
                  grid.agents[k].row = goal_row /\ grid.agents[k].col = goal_col
        /\ is_terminal => IsTerminal
        /\ CorridorStepIntoGoal =>
              /\ is_terminal
              /\ rewards[0] = (-1) + 100

\* The corridor step into the goal happened.
C13_CorridorGoalReached ==
    /\ CorridorStepIntoGoal
    /\ grid.cols >= 2
    /\ grid.agents[1].col = goal_col

\* The synchro cells on which an agent of the store stands.
OccupiedSynchroCells ==
    { cell \in { synchro_positions[k] : k \in 1..Len(synchro_positions) } :
        \E a \in 1..Len(grid.agents) :
            grid.agents[a].row = cell[1] /\ grid.agents[a].col = cell[2] }

\* C14: in the synchro variant, after a turn the variant's flag is set
\* exactly when the set of synchro cells occupied by agents of the store has
\* as many elements as the configured agent count, and then every player's
\* turn reward holds the success bonus.
C14_SynchroTermination ==
    (variant = "synchro" /\ nTurns >= 1) =>
        /\ Len(synchro_positions) = num_agents
        /\ is_terminal <=> (Cardinality(OccupiedSynchroCells) = num_agents)
        /\ is_terminal =>
              \A p \in Players :
                  rewards[p] \in {(-1) + 100, (-100) + 100}

\* A synchro episode ended by several agents standing on all the cells.
C14_AllCellsOccupied ==
    /\ variant = "synchro" /\ is_terminal /\ num_agents >= 2
    /\ Cardinality(OccupiedSynchroCells) = num_agents

\* Player p's agent died on Lava in the last processed turn.
DiedThisTurn(p) == \E k \in 1..Len(turn.dead) : turn.dead[k] = p

C16_LegalActionsFixed ==
    \A p \in Players :
        IF is_terminal \/ timestep >= horizon
        THEN LegalActions(p) = <<>>
        ELSE LegalActions(p) = <<0, 1, 2, 3, 4, 5>>

\* A non-terminal state in which a player's agent has been removed.
C16_ActiveWithRemovedAgent ==
    /\ ~(is_terminal \/ timestep >= horizon)
    /\ \E p \in Players : \A k \in 1..Len(grid.agents) : grid.agents[k].id # p

\* C17: the initial state is not terminal, and CurrentPlayer is the
\* simultaneous-turn sentinel exactly in non-terminal states and the terminal
\* sentinel exactly in terminal states.
C17_InitialActiveAndSentinels ==
    /\ nTurns = 0 => ~(is_terminal \/ timestep >= horizon)
    /\ CurrentPlayer = kSimultaneousPlayerId <=> ~(is_terminal \/ timestep >= horizon)
    /\ CurrentPlayer = kTerminalPlayerId <=> (is_terminal \/ timestep >= horizon)

\* An initial state in which the variant's condition is already met.
C17_InitialConditionAlreadyMet ==
    /\ nTurns = 0
    /\ CheckTermination(variant, grid, goal_row, goal_col, synchro_positions)
    /\ CurrentPlayer = kSimultaneousPlayerId

\* The submitted vector with Stay written wherever an entry is outside 0..5
\* or missing.
StayFilled(actions) ==
    [i \in 1..num_agents |->
        IF i <= Len(actions) /\ actions[i] >= 0 /\ actions[i] <= 5
        THEN actions[i] ELSE 5]

\* The state object before the last processed turn: the recorded grid, the
\* counter one lower, the returns without the turn's rewards.
PreTurnState ==
    StateObject(turn.pre, timestep - 1, rewards,
                [p \in Players |-> returns[p] - rewards[p]], FALSE)

\* C18: the last processed turn left the state that the same turn leaves
\* when every out-of-range or missing entry of its vector is Stay.
C18_MalformedActsAsStay ==
    nTurns >= 1 =>
        \E t \in {ProcessTimestepOf(PreTurnState,
                                    TypedActions(StayFilled(turn.raw), num_agents))} :
            /\ grid = t.grid
            /\ timestep = t.timestep
            /\ rewards = t.rewards
            /\ returns = t.returns
            /\ is_terminal = t.is_terminal

\* A processed turn whose vector was too short and held a negative entry and
\* an entry above 5.
C18_MalformedVectorProcessed ==
    /\ lastCall = "applied"
    /\ Len(turn.raw) < num_agents
    /\ \E i \in 1..Len(turn.raw) : turn.raw[i] < 0
    /\ \E j \in 1..Len(turn.raw) : turn.raw[j] > 5

\* C19: in every processed turn each agent in the store before the turn has
\* the predicted move that the action at the index of its own id gives, and
\* interacts exactly when that action is Interact.
C19_AgentFollowsOwnAction ==
    /\ Len(turn.moves) = Len(turn.pre.agents)
    /\ \A i \in 1..Len(turn.pre.agents) :
          LET agent == turn.pre.agents[i]
              own == turn.typed[agent.id + 1]
          IN /\ turn.moves[i].id = agent.id
             /\ <<turn.moves[i].row, turn.moves[i].col>> =
                   (IF own \in {kNorth, kEast, kSouth, kWest}
                    THEN GetNextPosition(agent.row, agent.col, own)
                    ELSE <<agent.row, agent.col>>)
             /\ (own = kInteract) <=> (\E n \in LogIndices : turn.log[n].id = agent.id)

\* Player p's agent was in the store when the last processed turn began.
AliveBeforeTurn(p) == \E k \in 1..Len(turn.pre.agents) : turn.pre.agents[k].id = p

\* C20: in a processed turn an agent that was alive and did not die has turn
\* reward -1 before any terminal bonus, and a player whose agent was removed
\* in an earlier turn gets no step penalty, so its return does not decrease.
C20_StepPenaltyLivingOnly ==
    nTurns >= 1 =>
        \A p \in Players :
            /\ (AliveBeforeTurn(p) /\ ~DiedThisTurn(p)) =>
                  rewards[p] = (-1) + (IF is_terminal THEN 100 ELSE 0)
            /\ ~AliveBeforeTurn(p) => rewards[p] >= 0

(***************************************************************************)
(* Rotations.  A rotation is a set of at least two store indices whose     *)
(* agents stand on distinct cells and each move into the pre-turn cell of  *)
(* another member, every member's cell being entered by a member: a swap   *)
(* for two agents, a cycle (or several) for more.                          *)
(***************************************************************************)
MovesInto(i, j) ==
    /\ Moves(i)
    /\ turn.moves[i].row = turn.pre.agents[j].row
    /\ turn.moves[i].col = turn.pre.agents[j].col

Rotations ==
    { S \in SUBSET MoveIndices :
        /\ Cardinality(S) >= 2
        /\ \A i \in S : \A j \in S \ {i} :
               \/ turn.pre.agents[i].row # turn.pre.agents[j].row
               \/ turn.pre.agents[i].col # turn.pre.agents[j].col
        /\ \A i \in S : \E j \in S \ {i} : MovesInto(i, j)
        /\ \A i \in S : \E j \in S \ {i} : MovesInto(j, i) }

AtDestination(i) ==
    /\ turn.moved.agents[i].row = turn.moves[i].row
    /\ turn.moved.agents[i].col = turn.moves[i].col

\* No agent outside S stands on, or has as predicted cell, the cell of a
\* member of S.
Undisturbed(S) ==
    \A k \in MoveIndices \ S : \A i \in S :
        /\ ~MovesInto(k, i)
        /\ \/ turn.pre.agents[k].row # turn.pre.agents[i].row
           \/ turn.pre.agents[k].col # turn.pre.agents[i].col

\* C21 as stated: whenever agents rotate (two swapping cells, or three or
\* more each moving into the cell the next one vacates), every one of them
\* ends the movement phase at its chosen destination.
C21_RotationAlwaysCompletes ==
    \A S \in Rotations : \A i \in S : AtDestination(i)

\* C21: agents that rotate, each destination passing the legality check and
\* no agent outside the rotation standing on or moving into one of its
\* cells, all end the movement phase at their chosen destinations.
C21_RotationCompletes ==
    \A S \in Rotations :
        ( /\ \A i \in S : ~Blocked(turn.pre, turn.moves[i].row, turn.moves[i].col)
          /\ Undisturbed(S) )
        => \A i \in S : AtDestination(i)

\* A rotation of more than two agents went through.
C21_CycleCompleted ==
    \E S \in Rotations :
        /\ Cardinality(S) >= 3
        /\ \A i \in S : AtDestination(i) /\ ~AtPreTurnPosition(i)

\* Two agents exchanged their cells.
C21_SwapCompleted ==
    \E S \in Rotations :
        /\ Cardinality(S) = 2
        /\ Undisturbed(S)
        /\ \A i \in S : AtDestination(i) /\ ~AtPreTurnPosition(i)

\* C22 as stated: an agent that moves into the cell another agent vacates by
\* a successful move completes its own move, and both agents are on the grid
\* on distinct cells at the end of the turn.
C22_FollowAlwaysCompletes ==
    \A i \in MoveIndices : \A j \in MoveIndices \ {i} :
        (MovesInto(i, j) /\ Moves(j) /\ AtDestination(j))
        => /\ AtDestination(i)
           /\ GetAgent(grid, turn.pre.agents[i].id) # nullptr
           /\ GetAgent(grid, turn.pre.agents[j].id) # nullptr

\* C22: an agent that moves into the cell another agent vacates by a
\* successful move, that cell passing the legality check and no third agent
\* standing on it or moving into it, completes its move; the two agents are
\* on distinct cells after the movement phase, and both are still on the grid
\* at the end of the turn unless one of these two cells is Lava.
C22_FollowMove ==
    \A i \in MoveIndices : \A j \in MoveIndices \ {i} :
        ( /\ MovesInto(i, j) /\ Moves(j) /\ AtDestination(j)
          /\ ~Blocked(turn.pre, turn.moves[i].row, turn.moves[i].col)
          /\ \A k \in MoveIndices \ {i, j} :
                 /\ ~MovesInto(k, j)
                 /\ \/ turn.pre.agents[k].row # turn.pre.agents[j].row
                    \/ turn.pre.agents[k].col # turn.pre.agents[j].col )
        => /\ AtDestination(i)
           /\ \/ turn.moved.agents[i].row # turn.moved.agents[j].row
              \/ turn.moved.agents[i].col # turn.moved.agents[j].col
           /\ ( /\ GetCell(turn.pre, turn.moves[i].row, turn.moves[i].col) # kLava
                /\ GetCell(turn.pre, turn.moves[j].row, turn.moves[j].col) # kLava )
              => /\ GetAgent(grid, turn.pre.agents[i].id) # nullptr
                 /\ GetAgent(grid, turn.pre.agents[j].id) # nullptr

\* The turn of TestCompanionSimpleCollisionResolution: on the 3x3 goal game
\* agent 0 steps East into the cell agent 1 leaves northwards.
C22_FollowedIntoVacatedCell ==
    /\ layout = "game" /\ variant = "simple" /\ grid.rows = 3 /\ nTurns = 1
    /\ turn.typed = <<kEast, kNorth>>
    /\ MovesInto(1, 2) /\ AtDestination(1) /\ AtDestination(2)
    /\ ~AtPreTurnPosition(1) /\ ~AtPreTurnPosition(2)
    /\ Len(grid.agents) = 2

\* C23: in every reachable state, for every requesting player and every cell,
\* of the observation planes 0-4 exactly the one whose index is the ordinal of
\* the cell's type (Empty=0, Wall=1, Lava=2, Goal=3, Synchro=4) is 1 at that
\* cell and the other four are 0.
C23_CellTypePlanesOneHot ==
    \A p \in Players :
        \E tensor \in {WriteObservationTensor(grid, p)} :
            \A row \in 0..(grid.rows - 1) : \A col \in 0..(grid.cols - 1) :
                \A plane \in 0..4 :
                    tensor[TensorIndex(grid, plane, row, col)] =
                        IF plane = GetCell(grid, row, col) THEN 1 ELSE 0

\* After a turn of the door layout the tensor shows Lava, Goal and Empty
\* cells, with an agent standing on the Goal cell.
C23_AgentOnGoalCellObserved ==
    /\ layout = "door_arena" /\ nTurns >= 1
    /\ GetAgentAt(grid, goal_row, goal_col) # nullptr
    /\ PlaneCells(grid, 1, kGoal) = { <<goal_row, goal_col>> }
    /\ PlaneCells(grid, 1, kLava) = { <<1, 1>> }
    /\ <<goal_row, goal_col>> \in PlaneCells(grid, 1, 5)

\* C24: in the observation tensor for player p, plane 5 is 1 exactly at the
\* cells occupied by at least one agent, plane 6 is 1 exactly at the cell of
\* the agent with id p and is entirely 0 when that agent has been removed,
\* plane 6 is contained in plane 5, and every entry of the tensor is 0 or 1.
C24_AgentPlanes ==
    \A p \in Players :
        \E tensor \in {WriteObservationTensor(grid, p)} :
            /\ \A row \in 0..(grid.rows - 1) : \A col \in 0..(grid.cols - 1) :
                  /\ tensor[TensorIndex(grid, 5, row, col)] = 1
                        <=> \E k \in 1..Len(grid.agents) :
                               grid.agents[k].row = row /\ grid.agents[k].col = col
                  /\ tensor[TensorIndex(grid, 6, row, col)] = 1
                        <=> \E k \in 1..Len(grid.agents) :
                               /\ grid.agents[k].id = p
                               /\ grid.agents[k].row = row /\ grid.agents[k].col = col
                  /\ tensor[TensorIndex(grid, 6, row, col)] = 1
                        => tensor[TensorIndex(grid, 5, row, col)] = 1
            /\ \A index \in DOMAIN tensor : tensor[index] \in {0, 1}
            /\ DOMAIN tensor = 0..(GetObservationTensorSize(grid) - 1)

\* After a turn two agents stand on the same cell, and plane 5 marks fewer
\* cells than there are agents.
C24_OverlappingAgentsObserved ==
    /\ nTurns >= 1
    /\ \E i \in 1..Len(grid.agents) : \E j \in 1..Len(grid.agents) :
          /\ i # j
          /\ grid.agents[i].row = grid.agents[j].row
          /\ grid.agents[i].col = grid.agents[j].col
          /\ <<grid.agents[i].row, grid.agents[i].col>> \in PlaneCells(grid, 0, 5)
    /\ Cardinality(PlaneCells(grid, 0, 5)) < Len(grid.agents)

\* The cells of type Synchro on the grid g.
SynchroCellsOnGrid(g) ==
    { cell \in (0..(g.rows - 1)) \X (0..(g.cols - 1)) :
        GetCell(g, cell[1], cell[2]) = kSynchro }

\* C25: in the initial state of the synchro variant the number of Synchro
\* cells on the grid equals the number of agents.
C25_SynchroCellsEqualAgents ==
    (variant = "synchro" /\ nTurns = 0 /\ lastCall = "none")
        => Cardinality(SynchroCellsOnGrid(grid)) = num_agents

\* C26: a synchro game loaded with its declared agent-count parameter
\* "players" set to n has NumPlayers() = n, and its initial state holds n
\* agents.
C26_PlayersParameterSetsAgentCount ==
    (variant = "synchro" /\ "players" \in DOMAIN game_parameters)
        => /\ NumPlayers = game_parameters["players"]
           /\ (nTurns = 0 /\ lastCall = "none")
                 => Len(grid.agents) = game_parameters["players"]

\* CompanionGame::MinUtility and CompanionGame::MaxUtility
MinUtility == kDeathPenalty + kStepReward * horizon

MaxUtility == kSuccessReward + kStepReward

\* C27: in every reachable state every player's return lies in
\* [MinUtility(), MaxUtility()], which is [-100 - horizon, 99].
C27_ReturnsWithinUtilityBounds ==
    /\ MinUtility = -100 - horizon
    /\ MaxUtility = 99
    /\ \A p \in Players : MinUtility <= returns[p] /\ returns[p] <= MaxUtility

\* At the horizon a player whose agent died in the first turn holds the
\* lowest return an episode produces, one above MinUtility, while another player's
\* return is higher.
C27_LowestReturnReached ==
    /\ horizon >= 2 /\ nTurns = horizon
    /\ \E p \in Players : \E q \in Players :
          /\ returns[p] = MinUtility + 1
          /\ AbsentFromGrid(grid, p)
          /\ returns[q] > returns[p]

\* The highest return: success in the first turn.
C27_HighestReturnReached ==
    \E p \in Players : returns[p] = MaxUtility /\ nTurns = 1 /\ is_terminal

C29_AgentIdsUnique ==
    /\ \A id \in Players : \A row \in 0..(grid.rows - 1) :
          \E agent \in {AgentData(id, row, 0, kNorth, <<>>)} :
              IF \E k \in 1..Len(grid.agents) : grid.agents[k].id = id
              THEN AddAgentIsFatal(grid, agent) /\ AddAgent(grid, agent) = grid
              ELSE /\ ~AddAgentIsFatal(grid, agent)
                   /\ AddAgent(grid, agent).agents = Append(grid.agents, agent)
    /\ \A i \in 1..Len(grid.agents) :
          /\ grid.agents[i].id \in 0..(num_agents - 1)
          /\ \A j \in 1..Len(grid.agents) :
                i # j => grid.agents[i].id # grid.agents[j].id

\* After a removal the store holds agent 1 only: adding an agent with id 1
\* is fatal, adding one with id 0 is not.
C29_DuplicateRejectedAfterRemoval ==
    /\ nTurns >= 1 /\ Len(grid.agents) = 1 /\ grid.agents[1].id = 1
    /\ AddAgentIsFatal(grid, AgentData(1, 0, 0, kNorth, <<>>))
    /\ ~AddAgentIsFatal(grid, AgentData(0, 0, 0, kNorth, <<>>))

\* The ground items of the sequence ground lying on the cell (row, col), in
\* store order, and those lying elsewhere.
ItemsOn(ground, row, col) ==
    SelectSeq(ground, LAMBDA it : it.row = row /\ it.col = col)

ItemsOff(ground, row, col) ==
    SelectSeq(ground, LAMBDA it : ~(it.row = row /\ it.col = col))

\* C30: an Interact by an agent whose faced cell is in bounds and holds no
\* door takes, when its own cell holds a ground item and its inventory holds
\* fewer than 8 items, exactly the first ground item (in store order) of its
\* own cell into its inventory, that item leaving the ground and the items of
\* all other cells staying; otherwise (no item there, or a full inventory)
\* inventory and ground are unchanged.  Every agent's inventory holds at most
\* 8 items in every reachable state.
C30_PickupOneItemUpToCapacity ==
    /\ \A k \in LogIndices :
          \E e \in {turn.log[k]} :
            (e.in_bounds /\ e.door_before = nullptr) =>
                \E mine \in {ItemsOn(e.ground_before, e.row, e.col)} :
                    IF Len(mine) > 0 /\ Len(e.inventory_before) < kMaxInventorySize
                    THEN /\ e.inventory_after = Append(e.inventory_before, mine[1].item)
                         /\ Len(e.ground_after) < Len(e.ground_before)
                         /\ \A m \in 1..Len(e.ground_after) : e.ground_after[m] # mine[1]
                         /\ ItemsOff(e.ground_after, e.row, e.col)
                               = ItemsOff(e.ground_before, e.row, e.col)
                         /\ \A m \in 1..Len(e.ground_after) :
                               \E n \in 1..Len(e.ground_before) :
                                   e.ground_after[m] = e.ground_before[n]
                    ELSE /\ e.inventory_after = e.inventory_before
                         /\ e.ground_after = e.ground_before
    /\ \A i \in 1..Len(grid.agents) :
          Len(grid.agents[i].inventory) <= kMaxInventorySize

\* An agent holding 8 items interacted on a cell that holds a ground item,
\* facing a cell in bounds without a door.
C30_FullInventoryTried ==
    \E k \in LogIndices :
        /\ turn.log[k].in_bounds /\ turn.log[k].door_before = nullptr
        /\ Len(turn.log[k].inventory_before) = kMaxInventorySize
        /\ Len(ItemsOn(turn.log[k].ground_before, turn.log[k].row, turn.log[k].col)) > 0

\* C31: every successful pickup (an interaction after which the agent's
\* inventory is longer) removes exactly one ground item from the store and
\* appends exactly that item to the inventory, also when several ground
\* items of the cell carry the same item id; every other interaction leaves
\* the ground items as they are.
C31_PickupRemovesExactlyOne ==
    \A k \in LogIndices :
        \E e \in {turn.log[k]} :
            IF Len(e.inventory_after) > Len(e.inventory_before)
            THEN /\ Len(e.ground_after) = Len(e.ground_before) - 1
                 /\ \E n \in 1..Len(e.ground_before) :
                       /\ e.ground_after = EraseAt(e.ground_before, n)
                       /\ e.inventory_after
                             = Append(e.inventory_before, e.ground_before[n].item)
            ELSE e.ground_after = e.ground_before

\* The items of an inventory that are not keys, in order.
NonKeys(inventory) == SelectSeq(inventory, LAMBDA it : it.type # kKey)

\* C32: an interacting agent that faces a cell holding a door picks up no
\* ground item, whatever the door outcome: the ground items are unchanged,
\* the inventory does not grow and its non-key part is unchanged.
C32_DoorInteractionSkipsPickup ==
    \A k \in LogIndices :
        \E e \in {turn.log[k]} :
            FacesDoor(e) =>
                /\ e.ground_after = e.ground_before
                /\ Len(e.inventory_after) <= Len(e.inventory_before)
                /\ NonKeys(e.inventory_after) = NonKeys(e.inventory_before)

\* An agent with room in its inventory, standing on a ground item, opened
\* the door it faces.
C32_OpenedDoorStandingOnItem ==
    \E k \in LogIndices :
        /\ FacesDoor(turn.log[k])
        /\ ~turn.log[k].door_before.is_open /\ turn.log[k].door_after.is_open
        /\ Len(turn.log[k].inventory_before) < kMaxInventorySize
        /\ Len(ItemsOn(turn.log[k].ground_before, turn.log[k].row, turn.log[k].col)) > 0

\* C33: an Interact by an agent whose faced cell is out of bounds changes
\* nothing: no door changes state, no ground item is removed and the
\* agent's inventory is unchanged.
C33_OutOfBoundsInteractSkipped ==
    \A k \in LogIndices :
        \E e \in {turn.log[k]} :
            ~e.in_bounds =>
                /\ e.ground_after = e.ground_before
                /\ e.inventory_after = e.inventory_before
                /\ e.doors_after = e.doors_before

\* An agent with room in its inventory, standing on a ground item, interacted
\* facing a cell outside the grid.
C33_FacedOutsideStandingOnItem ==
    \E k \in LogIndices :
        /\ ~turn.log[k].in_bounds
        /\ Len(turn.log[k].inventory_before) < kMaxInventorySize
        /\ Len(ItemsOn(turn.log[k].ground_before, turn.log[k].row, turn.log[k].col)) > 0

\* C34: movement is predicted, resolved and applied before any interaction,
\* so legality uses the door states of the start of the turn: a move toward a
\* door closed at the start of the turn is reverted even if the door is
\* opened in that turn, and a move into a cell whose door is open at the
\* start of the turn (no other agent standing on or aiming at the cell) is
\* carried out even if the door is closed in that turn.  Death, termination,
\* reward accrual and the timestep increment follow: the agents removed are
\* those on Lava after the movement phase, termination is evaluated on the
\* store left after the removal, the success reward is added on top of the
\* step / death reward exactly when that evaluation ended the episode, and
\* the counter has advanced once per processed turn.
C34_PipelineOrder ==
    nTurns >= 1 =>
        /\ \A i \in MoveIndices :
              (Moves(i) /\ ClosedDoorOn(turn.pre, turn.moves[i].row, turn.moves[i].col))
                  => AtPreTurnPosition(i)
        /\ \A i \in MoveIndices :
              ( /\ Moves(i)
                /\ ~Blocked(turn.pre, turn.moves[i].row, turn.moves[i].col)
                /\ \A k \in MoveIndices \ {i} :
                      /\ ~SameTarget(k, i)
                      /\ ~( /\ turn.pre.agents[k].row = turn.moves[i].row
                            /\ turn.pre.agents[k].col = turn.moves[i].col ) )
                  => AtDestination(i)
        /\ \A i \in 1..Len(turn.moved.agents) :
              OnLava(turn.moved, turn.moved.agents[i])
                  <=> /\ DiedThisTurn(turn.moved.agents[i].id)
                      /\ GetAgent(grid, turn.moved.agents[i].id) = nullptr
        /\ is_terminal = CheckTermination(variant, grid, goal_row, goal_col,
                                          synchro_positions)
        /\ \A p \in Players :
              rewards[p] = (IF DiedThisTurn(p) THEN kDeathPenalty ELSE kStepReward)
                           + (IF is_terminal THEN kSuccessReward ELSE 0)
        /\ timestep = nTurns

\* An agent entered the cell of a door that was open at the start of the
\* turn and that another agent closed in the same turn.
C34_EnteredWhileDoorWasClosed ==
    \E i \in MoveIndices : \E k \in LogIndices :
        /\ Moves(i) /\ AtDestination(i)
        /\ turn.log[k].id # turn.pre.agents[i].id
        /\ turn.log[k].front = <<turn.moves[i].row, turn.moves[i].col>>
        /\ FacesDoor(turn.log[k])
        /\ turn.log[k].door_before.is_open /\ ~turn.log[k].door_after.is_open

\* An agent moving toward a closed door stayed where it was while another
\* agent opened that door in the same turn.
C34_BlockedWhileDoorWasOpened ==
    \E i \in MoveIndices : \E k \in LogIndices :
        /\ Moves(i) /\ AtPreTurnPosition(i)
        /\ turn.log[k].id # turn.pre.agents[i].id
        /\ turn.log[k].front = <<turn.moves[i].row, turn.moves[i].col>>
        /\ FacesDoor(turn.log[k])
        /\ ~turn.log[k].door_before.is_open /\ turn.log[k].door_after.is_open

\* The agents of the grid g occupy pairwise distinct cells.
PairwiseDistinctCells(g) ==
    \A i \in 1..Len(g.agents) : \A j \in 1..Len(g.agents) :
        i # j => \/ g.agents[i].row # g.agents[j].row
                 \/ g.agents[i].col # g.agents[j].col

\* C35: if before a turn all agents occupy pairwise distinct cells, then
\* after ResolveCollisions and ApplyMoves all agents still occupy pairwise
\* distinct cells.
C35_ExclusionPreserved ==
    (nTurns >= 1 /\ PairwiseDistinctCells(turn.pre))
        => PairwiseDistinctCells(turn.moved)

\* The agent at store index k of the pre-turn grid is stationary in the last
\* turn: the action of its own player is Stay or Interact, or its predicted
\* move fails the legality check.
Stationary(k) ==
    \/ turn.typed[turn.pre.agents[k].id + 1] \in {kStay, kInteract}
    \/ /\ Moves(k)
       /\ ~CanMoveTo(turn.pre, turn.moves[k].row, turn.moves[k].col)

\* C36: in every processed turn a stationary agent (action Stay or Interact,
\* or move reverted by the legality pass) is at its pre-turn position after
\* the movement phase, and every other agent that moved toward its cell is
\* back at its own pre-turn position.
C36_StationaryNeitherDisplacedNorJoined ==
    \A k \in MoveIndices :
        Stationary(k) =>
            /\ AtPreTurnPosition(k)
            /\ \A i \in MoveIndices \ {k} : MovesInto(i, k) => AtPreTurnPosition(i)

\* C37 as stated: in every reachable state no agent occupies a cell that
\* holds a closed door.
C37_NoAgentOnClosedDoor ==
    \A k \in 1..Len(grid.agents) :
        ~ClosedDoorOn(grid, grid.agents[k].row, grid.agents[k].col)

\* C37: in every reachable state an agent that occupies a closed-door cell
\* did not enter through the closed door: at the start of the last turn it
\* already stood on that cell, or the door was open then and was closed by an
\* Interact of that turn.
C37_ClosedDoorNeverEntered ==
    \A k \in 1..Len(grid.agents) :
        LET agent == grid.agents[k]
            before == GetAgent(turn.pre, agent.id)
        IN ClosedDoorOn(grid, agent.row, agent.col) =>
              /\ nTurns >= 1
              /\ before # nullptr
              /\ \/ before.row = agent.row /\ before.col = agent.col
                 \/ /\ ~ClosedDoorOn(turn.pre, agent.row, agent.col)
                    /\ \E n \in LogIndices :
                          /\ turn.log[n].front = <<agent.row, agent.col>>
                          /\ FacesDoor(turn.log[n])
                          /\ turn.log[n].door_before.is_open
                          /\ ~turn.log[n].door_after.is_open

\* An agent stands on a closed-door cell it walked onto in the last turn.
C37_DoorClosedOntoEnteringAgent ==
    \E k \in 1..Len(grid.agents) :
        /\ ClosedDoorOn(grid, grid.agents[k].row, grid.agents[k].col)
        /\ GetAgent(turn.pre, grid.agents[k].id) # nullptr
        /\ GetAgent(turn.pre, grid.agents[k].id).row # grid.agents[k].row

\* The grid as SetupGrid left it when this episode was constructed.
InitialGrid == SetupGrid(NewGame(layout, variant, game_parameters)).grid

\* C38: in every reachable state each agent on the grid faces the direction
\* it was given at setup, and every Interact of the last turn targeted the
\* neighbour of the agent's cell in that direction.
C38_DirectionNeverChanges ==
    /\ \A k \in 1..Len(grid.agents) :
          grid.agents[k].direction = GetAgent(InitialGrid, grid.agents[k].id).direction
    /\ \A n \in LogIndices :
          turn.log[n].front =
              GetNextPosition(turn.log[n].row, turn.log[n].col,
                              GetAgent(InitialGrid, turn.log[n].id).direction)

\* After at least two turns an agent is off its setup column, so it moved East
\* or West, in a turn in which an agent facing North interacted.
C38_MovedSidewaysFacingNorth ==
    /\ nTurns >= 2
    /\ \E k \in 1..Len(grid.agents) :
          /\ grid.agents[k].direction = kNorth
          /\ grid.agents[k].col # GetAgent(InitialGrid, grid.agents[k].id).col
    /\ \E n \in LogIndices :
          GetAgent(InitialGrid, turn.log[n].id).direction = kNorth

\* C39: every episode terminates.  In every reachable state the timestep
\* counter equals the number of submissions made in a non-terminal state
\* (each advanced it by exactly 1), a submission is ignored only in a
\* terminal state, the counter does not exceed the horizon, and after
\* horizon turns the state is terminal.
C39_EpisodeTerminates ==
    /\ timestep = nTurns
    /\ lastCall = "ignored" => IsTerminal
    /\ lastCall = "applied" => timestep >= 1
    /\ timestep <= horizon
    /\ nTurns >= horizon => IsTerminal

\* The longest episode: the variant's condition never met, the counter at the
\* largest horizon, and a further submission ignored.
C39_HorizonExhausted ==
    /\ horizon = MaxArenaHorizon /\ timestep = horizon /\ ~is_terminal
    /\ lastCall = "ignored"
    /\ Len(grid.agents) = num_agents

====
